---- MODULE Spec2Model ----
(***************************************************************************)
(* The Chat page of InsightGuru (src/unnamed/part_000): one mounted Chat   *)
(* component, its session-load effect, the ask-question round trip, the    *)
(* response normalizer and the localStorage cache of rows/columns/chart.   *)
(*                                                                         *)
(* JavaScript strings are sequences of UTF-16 code units.  JavaScript      *)
(* values are records [t, v]: t is the runtime type, v the payload (a      *)
(* sequence in every case, so that values of different types compare).     *)
(* Objects are ordered sequences of <<key, value>> pairs (insertion order  *)
(* is what Object.keys and Object.values return).                          *)
(***************************************************************************)
EXTENDS Integers, Sequences, FiniteSets, TLC

(* ------------------------------ bounds -------------------------------- *)
\* longest message list a submitted question and its reply may produce
MaxMsgs == 3
\* longest transcript the session-load call returns
MaxTranscript == 2
\* requests (questions and session loads) outstanding at once
MaxLoads == 2

(* --------------------------- JS values -------------------------------- *)
Undef == [t |-> "undefined", v |-> <<>>]
Null == [t |-> "null", v |-> <<>>]
Str(s) == [t |-> "string", v |-> s]
Num(n) == [t |-> "number", v |-> <<n>>]
Arr(xs) == [t |-> "array", v |-> xs]
Obj(ps) == [t |-> "object", v |-> ps]

\* JavaScript truthiness (ToBoolean)
Truthy(x) ==
  CASE x.t \in {"undefined", "null"} -> FALSE
    [] x.t = "string" -> x.v # <<>>
    [] x.t = "number" -> x.v # <<0>>
    [] OTHER -> TRUE

\* typeof x === "object" (true of null, arrays and plain objects)
TypeofObject(x) == x.t \in {"null", "array", "object"}

RECURSIVE Lookup(_, _)
Lookup(ps, k) ==
  IF ps = <<>> THEN Undef
  ELSE IF ps[Len(ps)][1] = k THEN ps[Len(ps)][2]
  ELSE Lookup(SubSeq(ps, 1, Len(ps) - 1), k)

\* x?.k : undefined on null/undefined and on values without that property
Get(x, k) == IF x.t = "object" THEN Lookup(x.v, k) ELSE Undef

\* Object.keys / Object.values of a value that is neither null nor undefined
ObjectKeys(x) == IF x.t = "object" THEN [i \in 1..Len(x.v) |-> Str(x.v[i][1])] ELSE <<>>
ObjectValues(x) == IF x.t \in {"object"} THEN [i \in 1..Len(x.v) |-> x.v[i][2]] ELSE <<>>

(* ----------------------------- strings -------------------------------- *)
kSessionId == <<115, 101, 115, 115, 105, 111, 110, 95, 105, 100>>
kSessionName == <<115, 101, 115, 115, 105, 111, 110, 95, 110, 97, 109, 101>>
kSummary == <<115, 117, 109, 109, 97, 114, 121>>
kMessage == <<109, 101, 115, 115, 97, 103, 101>>
kError == <<101, 114, 114, 111, 114>>
kSql == <<115, 113, 108>>
kResult == <<114, 101, 115, 117, 108, 116>>
kRows == <<114, 111, 119, 115>>
kColumns == <<99, 111, 108, 117, 109, 110, 115>>
kChart == <<99, 104, 97, 114, 116>>
kData == <<100, 97, 116, 97>>
kSession == <<115, 101, 115, 115, 105, 111, 110>>
kName == <<110, 97, 109, 101>>
kMessages == <<109, 101, 115, 115, 97, 103, 101, 115>>
kRole == <<114, 111, 108, 101>>
kContent == <<99, 111, 110, 116, 101, 110, 116>>
roleUser == Str(<<117, 115, 101, 114>>)
roleAssistant == Str(<<97, 115, 115, 105, 115, 116, 97, 110, 116>>)

IsSpace(c) == c \in {9, 10, 11, 12, 13, 32, 160}

RECURSIVE TrimStart(_)
TrimStart(s) == IF s # <<>> /\ IsSpace(s[1]) THEN TrimStart(Tail(s)) ELSE s

RECURSIVE TrimEnd(_)
TrimEnd(s) ==
  IF s # <<>> /\ IsSpace(s[Len(s)]) THEN TrimEnd(SubSeq(s, 1, Len(s) - 1)) ELSE s

\* String.prototype.trim
Trim(s) == TrimEnd(TrimStart(s))

RECURSIVE Digits(_, _)
Digits(n, base) ==
  IF n < base THEN <<n>> ELSE Append(Digits(n \div base, base), n % base)

DigitCode(d) == IF d < 10 THEN 48 + d ELSE 87 + d

\* Number.prototype.toString(base) of a non-negative integer
NumToString(n, base) == [i \in 1..Len(Digits(n, base)) |-> DigitCode(Digits(n, base)[i])]

(* ------------------------------ hashKey ------------------------------- *)
RECURSIVE Xor(_, _)
Xor(a, b) ==
  IF a = 0 THEN b
  ELSE IF b = 0 THEN a
  ELSE ((a + b) % 2) + 2 * Xor(a \div 2, b \div 2)

Limb == 65536

\* one round of h = (h * 33) ^ c on a 32-bit h kept as <<high 16 bits, low 16 bits>>
\* (the ^ operator truncates its operands to 32 bits)
HashStep(h, c) ==
  <<(h[1] * 33 + ((h[2] * 33) \div Limb)) % Limb, Xor((h[2] * 33) % Limb, c)>>

\* the loop over s from index i on, h being the value so far (h[1] < 0 never
\* holds; testing it computes h before the next round starts)
RECURSIVE HashFold(_, _, _)
HashFold(h, s, i) ==
  IF h[1] < 0 \/ i > Len(s) THEN h ELSE HashFold(HashStep(h, s[i]), s, i + 1)

Pad4(s) == [i \in 1..(4 - Len(s)) |-> 48] \o s

\* (h >>> 0).toString(16), h starting from 5381
hashKey(s) ==
  LET h == HashFold(<<0, 5381>>, s, 1)
  IN  IF h[1] = 0 THEN NumToString(h[2], 16)
      ELSE NumToString(h[1], 16) \o Pad4(NumToString(h[2], 16))

(* ------------------------- literal texts ------------------------------ *)
NoRowsText == <<78, 111, 32, 114, 111, 119, 115, 32, 114, 101, 116, 117, 114, 110, 101, 100, 32, 102, 111, 114, 32, 116, 104, 105, 115, 32, 113, 117, 101, 115, 116, 105, 111, 110, 46>>
ErrorReplyText == <<73, 32, 104, 105, 116, 32, 97, 110, 32, 101, 114, 114, 111, 114, 32, 119, 104, 105, 108, 101, 32, 112, 114, 111, 99, 101, 115, 115, 105, 110, 103, 32, 121, 111, 117, 114, 32, 113, 117, 101, 115, 116, 105, 111, 110, 46, 32, 80, 108, 101, 97, 115, 101, 32, 116, 114, 121, 32, 97, 103, 97, 105, 110, 46>>
ReturnedText == <<82, 101, 116, 117, 114, 110, 101, 100, 32>>
RowsTimesText == <<32, 114, 111, 119, 115, 32, 215, 32>>
ColumnsText == <<32, 99, 111, 108, 117, 109, 110, 115, 46>>
CachePrefix == <<102, 103, 95, 99, 97, 99, 104, 101, 95>>
NetworkErrorText == <<78, 101, 116, 119, 111, 114, 107, 32, 101, 114, 114, 111, 114, 58, 32>>
UnknownResponseText == <<85, 110, 107, 110, 111, 119, 110, 32, 115, 101, 114, 118, 101, 114, 32, 114, 101, 115, 112, 111, 110, 115, 101>>
RequestFailedText == <<82, 101, 113, 117, 101, 115, 116, 32, 102, 97, 105, 108, 101, 100, 32, 40, 115, 116, 97, 116, 117, 115, 32>>
NoDatasetTitle == <<78, 111, 32, 100, 97, 116, 97, 115, 101, 116, 32, 102, 111, 117, 110, 100>>
NoDatasetText == <<80, 108, 101, 97, 115, 101, 32, 117, 112, 108, 111, 97, 100, 32, 97, 32, 100, 97, 116, 97, 115, 101, 116, 32, 102, 105, 114, 115, 116, 46>>
ErrorTitle == <<69, 114, 114, 111, 114>>

(* ------------------------------- JSON --------------------------------- *)
\* The value JSON.stringify serialises: properties holding undefined are
\* dropped, undefined array elements become null.
RECURSIVE ToJSON(_)
ToJSON(x) ==
  CASE x.t = "object" ->
         LET kept == SelectSeq(x.v, LAMBDA p : p[2].t # "undefined")
         IN  Obj([i \in 1..Len(kept) |-> <<kept[i][1], ToJSON(kept[i][2])>>])
    [] x.t = "array" ->
         Arr([i \in 1..Len(x.v) |->
                IF x.v[i].t = "undefined" THEN Null ELSE ToJSON(x.v[i])])
    [] OTHER -> x

\* A string holding well-formed JSON text is [t |-> "json", v |-> <<value>>];
\* any other string is a Str of code units.
JSONStringify(x) == [t |-> "json", v |-> <<ToJSON(x)>>]

\* JSON.parse: the value, or a SyntaxError on text that is not JSON
JSONParse(s) ==
  IF s.t = "json" THEN [threw |-> FALSE, value |-> s.v[1]]
  ELSE [threw |-> TRUE, value |-> Undef]

(* ------------------------------ cache --------------------------------- *)
CacheKey(sessionId, summary, sql) ==
  CachePrefix \o sessionId \o <<95>> \o hashKey(summary \o <<124>> \o sql)

\* `${x}` / x || "" for the values used as strings here
StrOrEmpty(x) ==
  IF x.t = "string" THEN x.v
  ELSE IF x.t = "number" /\ Truthy(x) THEN NumToString(x.v[1], 10)
  ELSE <<>>

\* a cacheSet whose write replaces the whole store
cacheSetOnly(store, sessionId, summary, sql, payload, quota) ==
  IF sessionId = <<>> \/ summary = <<>> THEN store
  ELSE (CacheKey(sessionId, summary, StrOrEmpty(sql)) :> JSONStringify(payload))

\* localStorage is a function from keys to stored strings.  quota = TRUE is a
\* setItem that throws (storage full or unavailable); the throw is swallowed.
cacheSet(store, sessionId, summary, sql, payload, quota) ==
  IF sessionId = <<>> \/ summary = <<>> THEN store
  ELSE IF quota THEN store
  ELSE LET key == CacheKey(sessionId, summary, StrOrEmpty(sql))
       IN  (key :> JSONStringify(payload)) @@ store

\* a cacheGet that answers stored text that is not JSON with an empty payload
cacheGetLoose(store, sessionId, summary, sql) ==
  IF sessionId = <<>> \/ summary = <<>> THEN Null
  ELSE IF CacheKey(sessionId, summary, StrOrEmpty(sql)) \notin DOMAIN store THEN Null
  ELSE IF JSONParse(store[CacheKey(sessionId, summary, StrOrEmpty(sql))]).threw
  THEN Obj(<< <<kRows, Arr(<<>>)>>, <<kColumns, Arr(<<>>)>> >>)
  ELSE JSONParse(store[CacheKey(sessionId, summary, StrOrEmpty(sql))]).value

\* a cacheGet that hands back the stored text unparsed
cacheGetText(store, sessionId, summary, sql) ==
  IF sessionId = <<>> \/ summary = <<>> THEN Null
  ELSE IF CacheKey(sessionId, summary, StrOrEmpty(sql)) \notin DOMAIN store THEN Null
  ELSE store[CacheKey(sessionId, summary, StrOrEmpty(sql))]

cacheGet(store, sessionId, summary, sql) ==
  IF sessionId = <<>> \/ summary = <<>> THEN Null
  ELSE LET key == CacheKey(sessionId, summary, StrOrEmpty(sql))
       IN  IF key \notin DOMAIN store THEN Null
           ELSE IF ~Truthy(store[key]) THEN Null
           ELSE IF JSONParse(store[key]).threw THEN Null
           ELSE JSONParse(store[key]).value

(* ---------------------------- normalize ------------------------------- *)
\* Object.keys(x) throws a TypeError on null and undefined
KeysThrows(x) == x.t \in {"null", "undefined"}

Indices(n) == [i \in 1..n |-> Str(NumToString(i - 1, 10))]

KeysOf(x) ==
  CASE x.t = "object" -> ObjectKeys(x)
    [] x.t \in {"array", "string"} -> Indices(Len(x.v))
    [] OTHER -> <<>>

NormRows(data) ==
  LET r == Get(Get(data, kResult), kRows)
  IN  IF r.t = "array" THEN r.v
      ELSE IF r.t = "object"
                /\ \A i \in 1..Len(r.v) : TypeofObject(ObjectValues(r)[i])
           THEN ObjectValues(r)
      ELSE <<>>

NormColumnsThrows(data) ==
  LET c == Get(Get(data, kResult), kColumns)
      rows == NormRows(data)
  IN  /\ ~(c.t = "array" /\ Len(c.v) > 0)
      /\ Len(rows) > 0
      /\ KeysThrows(rows[1])

\* a columns rule that always derives them from the first row
NormColumnsFromRows(data) ==
  IF Len(NormRows(data)) > 0 THEN KeysOf(NormRows(data)[1]) ELSE <<>>

NormColumns(data) ==
  LET c == Get(Get(data, kResult), kColumns)
      rows == NormRows(data)
  IN  IF c.t = "array" /\ Len(c.v) > 0 THEN c.v
      ELSE IF Len(rows) > 0 THEN KeysOf(rows[1])
      ELSE <<>>

\* a chart rule that never parses a string
NormChartNoParse(data) ==
  IF Get(data, kChart).t = "object" THEN Get(data, kChart) ELSE Null

NormChart(data) ==
  LET rawChart == Get(data, kChart)
  IN  IF ~Truthy(rawChart) THEN Null
      ELSE IF rawChart.t \in {"string", "json"}
           THEN IF JSONParse(rawChart).threw THEN Null ELSE JSONParse(rawChart).value
      ELSE IF TypeofObject(rawChart) THEN rawChart
      ELSE Null

\* data.summary.trim is undefined on a truthy summary that is not a string
NormContentThrows(data) ==
  LET s == Get(data, kSummary) IN Truthy(s) /\ s.t \notin {"string", "json"}

\* a content rule that prefers the message to the summary
NormContentMessageFirst(data) ==
  IF Truthy(Get(data, kMessage)) THEN Get(data, kMessage)
  ELSE IF Get(data, kSummary).t = "string" /\ Trim(Get(data, kSummary).v) # <<>>
  THEN Str(Trim(Get(data, kSummary).v))
  ELSE Str(NoRowsText)

NormContent(data) ==
  LET s == Get(data, kSummary)
      m == Get(data, kMessage)
      rows == NormRows(data)
      columns == NormColumns(data)
  IN  IF s.t = "string" /\ Trim(s.v) # <<>> THEN Str(Trim(s.v))
      ELSE IF Truthy(m) THEN m
      ELSE IF Len(rows) > 0
           THEN Str(ReturnedText \o NumToString(Len(rows), 10) \o RowsTimesText
                    \o NumToString(Len(columns), 10) \o ColumnsText)
      ELSE Str(NoRowsText)

normalize(data) ==
  IF NormColumnsThrows(data) \/ NormContentThrows(data)
  THEN [threw |-> TRUE, sqlQuery |-> Undef, rows |-> <<>>, columns |-> <<>>,
        chartPlotly |-> Null, content |-> Undef]
  ELSE [threw |-> FALSE, sqlQuery |-> Get(data, kSql), rows |-> NormRows(data),
        columns |-> NormColumns(data), chartPlotly |-> NormChart(data),
        content |-> NormContent(data)]

(* ------------------------- the Chat component ------------------------- *)
VARIABLES
  messages,        \* useState<Message[]>: the displayed conversation
  newMessage,      \* composer text
  isLoading,       \* a question is in flight
  sessionId,       \* tracked session id ("" = none)
  sessionName,     \* name shown for the session
  searchSid,       \* ?sid as the router's searchParams hold it
  urlSid,          \* ?sid of window.location (replaceState writes it directly)
  skipNextReload,  \* skipNextReloadRef.current
  storage,         \* localStorage entries written by cacheSet
  datasetId,       \* getDatasetId()
  asks,            \* ask-question requests in flight, with the closure they resume
  loads,           \* session-load fetches in flight: how many for each session id
  effectDue,       \* the session-load effect is scheduled (sessionId changed)
  last,            \* the step just taken: the handler and what it sent out
  probe            \* a direct call of a helper (cacheSet, cacheGet, normalize): its arguments and result

vars == <<messages, newMessage, isLoading, sessionId, sessionName, searchSid, urlSid,
          skipNextReload, storage, datasetId, asks, loads, effectDue, last, probe>>

(* session ids, texts and server payloads the model draws from *)
S1 == <<83, 49>>
S2 == <<83, 50>>
Sids == {S1, S2}
NoSid == <<>>
Dataset == <<100>>
Texts == {<<>>, <<32>>, <<113>>}
cA == <<97>>
cQ == <<113>>
cS == <<115>>
cX == <<120>>
NameOf(sid) == <<78>> \o sid
FetchFailedText == <<102, 97, 105, 108>>
SyntaxErrorText == <<83, 121, 110, 116, 97, 120>>
TypeErrorText == <<84, 121, 112, 101>>
ServerErrorText == <<98, 111, 111, 109>>

\* toast({title, description}); NoToast when the step raises none
NoToast == [title |-> <<>>, description |-> <<>>]
Toast(title, description) == [title |-> title, description |-> description]

Step(op, adopt, toast) == [op |-> op, adopt |-> adopt, toast |-> toast]

\* no helper has been called directly
NoProbe == [fn |-> "none"]

\* uid(): an identifier no message of the list carries
RECURSIVE MaxId(_)
MaxId(ms) ==
  IF ms = <<>> THEN 0
  ELSE LET m == MaxId(Tail(ms)) IN IF Head(ms).id > m THEN Head(ms).id ELSE m

uid(ms) == MaxId(ms) + 1

(* ---- loadSession: the effect on [sessionId, clientId] ---- *)
\* a load gate that never looks at skipNextReloadRef
LoadGateNoSkip(sid, ds, skip) ==
  IF sid = NoSid \/ ds = <<>> THEN "idle" ELSE "fetch"

\* what the effect does before any await: nothing, consume the flag, or fetch
LoadGate(sid, ds, skip) ==
  IF sid = NoSid \/ ds = <<>> THEN "idle"
  ELSE IF skip THEN "skip"
  ELSE "fetch"

LastAssistant(arr) ==
  LET idx == {i \in 1..Len(arr) : Get(arr[i], kRole) = roleAssistant}
  IN  IF idx = {} THEN 0 ELSE CHOOSE i \in idx : \A j \in idx : j <= i

\* an isLastBot that holds of every assistant entry
IsLastBotAny(arr, i) == Get(arr[i], kRole) = roleAssistant

IsLastBot(arr, i) == Get(arr[i], kRole) = roleAssistant /\ LastAssistant(arr) = i

\* a mapping of the transcript that never consults the cache
HydratePlain(store, sid, arr) ==
  [i \in 1..Len(arr) |->
     [id |-> i,
      sender |-> IF Get(arr[i], kRole) = roleUser THEN "user" ELSE "bot",
      content |-> IF Truthy(Get(arr[i], kContent)) THEN Get(arr[i], kContent) ELSE Str(<<>>),
      sqlQuery |-> Get(arr[i], kSql),
      preview |-> Undef,
      columns |-> Undef,
      chartPlotly |-> Undef,
      collapsed |-> IF Get(arr[i], kRole) = roleAssistant THEN ~IsLastBot(arr, i) ELSE FALSE]]

\* a mapping that prefers the text and the query a cache entry carries
HydrateFromCache(store, sid, arr) ==
  [i \in 1..Len(arr) |->
     LET m == arr[i]
         content == IF Truthy(Get(m, kContent)) THEN Get(m, kContent) ELSE Str(<<>>)
         hydrated == cacheGet(store, sid, StrOrEmpty(content), Get(m, kSql))
         rows == Get(hydrated, kRows)
         columns == Get(hydrated, kColumns)
         chart == Get(hydrated, kChart)
     IN  [id |-> i,
          sender |-> IF Get(m, kRole) = roleUser THEN "user" ELSE "bot",
          content |-> IF Truthy(Get(hydrated, kContent)) THEN Get(hydrated, kContent)
                      ELSE content,
          sqlQuery |-> IF Truthy(Get(hydrated, kSql)) THEN Get(hydrated, kSql)
                       ELSE Get(m, kSql),
          preview |-> IF rows.t = "array" THEN rows ELSE Undef,
          columns |-> IF columns.t = "array" THEN columns ELSE Undef,
          chartPlotly |-> IF chart.t \in {"null", "undefined"} THEN Undef ELSE chart,
          collapsed |-> IF Get(m, kRole) = roleAssistant THEN ~IsLastBot(arr, i) ELSE FALSE]]

\* arr.map(...): one message per transcript entry, rows/columns/chart from the cache
Hydrate(store, sid, arr) ==
  [i \in 1..Len(arr) |->
     LET m == arr[i]
         content == IF Truthy(Get(m, kContent)) THEN Get(m, kContent) ELSE Str(<<>>)
         hydrated == cacheGet(store, sid, StrOrEmpty(content), Get(m, kSql))
         rows == Get(hydrated, kRows)
         columns == Get(hydrated, kColumns)
         chart == Get(hydrated, kChart)
     IN  [id |-> i,
          sender |-> IF Get(m, kRole) = roleUser THEN "user" ELSE "bot",
          content |-> content,
          sqlQuery |-> Get(m, kSql),
          preview |-> IF rows.t = "array" THEN rows ELSE Undef,
          columns |-> IF columns.t = "array" THEN columns ELSE Undef,
          chartPlotly |-> IF chart.t \in {"null", "undefined"} THEN Undef ELSE chart,
          collapsed |-> IF Get(m, kRole) = roleAssistant THEN ~IsLastBot(arr, i) ELSE FALSE]]

\* requests the page is waiting for
InFlight == Len(asks) + loads[S1] + loads[S2]

(* ---- handleSendMessage ---- *)
\* a composer guard that does not look at isLoading
CanSubmitBusy(text, loading) == ~(Trim(text) = <<>>)

\* the composer's guard: if (!newMessage.trim() || isLoading) return
CanSubmit(text, loading) == ~(Trim(text) = <<>> \/ loading)

UserMessage(ms, text) ==
  [id |-> uid(ms), sender |-> "user", content |-> Str(text), sqlQuery |-> Undef,
   preview |-> Undef, columns |-> Undef, chartPlotly |-> Undef, collapsed |-> FALSE]

BotMessage(ms, n) ==
  [id |-> uid(ms), sender |-> "bot", content |-> n.content, sqlQuery |-> n.sqlQuery,
   preview |-> Arr(n.rows), columns |-> Arr(n.columns), chartPlotly |-> n.chartPlotly,
   collapsed |-> FALSE]

ErrorMessage(ms) ==
  [id |-> uid(ms), sender |-> "bot", content |-> Str(ErrorReplyText), sqlQuery |-> Undef,
   preview |-> Undef, columns |-> Undef, chartPlotly |-> Undef, collapsed |-> FALSE]

\* a replaceState that leaves ?sid out
ReplaceSidNone(rsid) == NoSid

\* params.set("sid", raw.session_id) and replaceState: the ?sid the URL then shows
ReplaceSid(rsid) == StrOrEmpty(rsid)

\* raw.session_id && raw.session_id !== sessionId, sessionId being the closure's
ShouldAdopt(rsid, closureSid) == Truthy(rsid) /\ rsid # Str(closureSid)

\* an append of the answer that leaves the earlier messages as they are
AppendBotKeep(prev, botMessage) == Append(prev, botMessage)

\* an append that first drops the earlier messages with the same text
AppendBotDedup(prev, botMessage) ==
  Append(SelectSeq([i \in 1..Len(prev) |->
                      IF prev[i].sender = "bot" THEN [prev[i] EXCEPT !.collapsed = TRUE]
                      ELSE prev[i]],
                   LAMBDA m : m.content # botMessage.content),
         botMessage)

\* prev.map(collapse every bot message).concat(botMessage)
AppendBot(prev, botMessage) ==
  Append([i \in 1..Len(prev) |->
            IF prev[i].sender = "bot" THEN [prev[i] EXCEPT !.collapsed = TRUE] ELSE prev[i]],
         botMessage)

\* a failure path that appends no reply
AppendErrorDrop(prev, errorReply) == prev

\* [...prev, errorReply]
AppendError(prev, errorReply) == Append(prev, errorReply)

\* a handler that clears the in-flight state on the success path only
LoadingAfterFailure(failed) == failed

\* finally { setIsLoading(false) }: the in-flight state after the handler, on
\* either path
LoadingAfter(failed) == FALSE

\* the session the answer's payload is cached under: sessionId || raw.session_id || ""
CacheSession(closureSid, rsid) ==
  IF closureSid # <<>> THEN closureSid ELSE StrOrEmpty(rsid)

(* ---- askQuestion ---- *)
\* A response is a rejected fetch, or a status with a body: JSON text or not.
DataError(data) ==
  IF Truthy(Get(data, kError)) THEN StrOrEmpty(Get(data, kError))
  ELSE IF Truthy(Get(data, kMessage)) THEN StrOrEmpty(Get(data, kMessage))
  ELSE RequestFailedText \o NumToString(500, 10) \o <<41>>

askQuestion(resp) ==
  IF resp.reject
  THEN [threw |-> TRUE, error |-> NetworkErrorText \o FetchFailedText, data |-> Undef]
  ELSE IF resp.ctJson /\ JSONParse(resp.body).threw
  THEN [threw |-> TRUE, error |-> SyntaxErrorText, data |-> Undef]
  ELSE LET data == IF ~JSONParse(resp.body).threw THEN JSONParse(resp.body).value
                   ELSE Obj(<< <<kError, IF resp.body.v # <<>> THEN Str(resp.body.v)
                                         ELSE Str(UnknownResponseText)>> >>)
       IN  IF ~resp.ok /\ data.t \in {"null", "undefined"}
           THEN [threw |-> TRUE, error |-> TypeErrorText, data |-> Undef]
           ELSE IF ~resp.ok
           THEN [threw |-> TRUE, error |-> DataError(data), data |-> Undef]
           ELSE [threw |-> FALSE, error |-> <<>>, data |-> data]

(* ---- what the servers may send ---- *)
Fields(ps) == Obj(SelectSeq(ps, LAMBDA p : p[2].t # "undefined"))

RichAnswer ==
  << <<kSummary, Str(cA)>>, <<kSql, Str(cS)>>,
     <<kResult, Obj(<< <<kRows, Arr(<< Obj(<< <<cX, Num(1)>> >>) >>)>> >>)>>,
     <<kChart, Obj(<< <<kData, Arr(<<Num(1)>>)>> >>)>> >>
BadAnswer == << <<kSummary, Num(5)>> >>

Answers ==
  {Fields(<< <<kSessionId, sid>> >> \o shape) :
     sid \in {Undef} \cup {Str(x) : x \in Sids}, shape \in {RichAnswer, BadAnswer}}
  \cup {Fields(<< <<kSessionId, Str(x)>>, <<kSessionName, Str(NameOf(x))>> >> \o RichAnswer) :
          x \in Sids}

Http(ok, ctJson, body) == [reject |-> FALSE, ok |-> ok, ctJson |-> ctJson, body |-> body]
Rejected == [reject |-> TRUE, ok |-> FALSE, ctJson |-> FALSE, body |-> Str(<<>>)]
ErrorBody == JSONStringify(Obj(<< <<kError, Str(ServerErrorText)>> >>))

AskResponses ==
  {Rejected, Http(FALSE, TRUE, ErrorBody)}
  \cup {Http(TRUE, TRUE, JSONStringify(a)) : a \in Answers}

Entry(role, content, sql) ==
  Fields(<< <<kRole, role>>, <<kContent, Str(content)>>, <<kSql, sql>> >>)

Entries == {Entry(roleUser, cQ, Undef), Entry(roleAssistant, cA, Str(cS))}

Transcripts(n) == UNION {[1..k -> Entries] : k \in 0..n}

TranscriptBody(sid, tr) ==
  JSONStringify(Obj(<< <<kSession, Obj(<< <<kName, Str(NameOf(sid))>> >>)>>,
                       <<kMessages, Arr(tr)>> >>))

LoadResponses(sid, n) ==
  {Rejected,
   Http(FALSE, TRUE, ErrorBody),
   Http(TRUE, TRUE, Str(cX)),
   Http(TRUE, TRUE, JSONStringify(Obj(<<>>))),
   Http(TRUE, TRUE, JSONStringify(Obj(<< <<kMessages, Str(cX)>> >>)))}
  \cup {Http(TRUE, TRUE, TranscriptBody(sid, tr)) : tr \in Transcripts(n)}

\* how a session-load response is to be read: a transport or status failure or
\* an unparseable body, a parsed body without a messages sequence, or a transcript
LoadClass(resp) ==
  IF resp.reject \/ ~resp.ok \/ JSONParse(resp.body).threw THEN "loadFailed"
  ELSE IF Get(JSONParse(resp.body).value, kMessages).t = "array" THEN "loadOk"
  ELSE IF Get(JSONParse(resp.body).value, kMessages).t = "undefined" THEN "loadMissing"
  ELSE "loadMalformed"

Remove(q, i) == SubSeq(q, 1, i - 1) \o SubSeq(q, i + 1, Len(q))

(* ------------------------------- Init --------------------------------- *)
Init ==
  /\ messages = <<>>
  /\ newMessage \in Texts
  /\ isLoading = FALSE
  /\ searchSid \in {NoSid, S1}
  /\ sessionId = searchSid
  /\ urlSid = searchSid
  /\ sessionName = <<>>
  /\ skipNextReload = FALSE
  /\ storage = <<>>
  /\ datasetId \in {<<>>, Dataset}
  /\ asks = <<>>
  /\ loads = [s \in Sids |-> 0]
  /\ effectDue = TRUE
  /\ last = Step("ui", FALSE, NoToast)
  /\ probe = NoProbe

(* ------------------------------ actions ------------------------------- *)
\* the composer's onChange
Type(t) ==
  /\ ~effectDue
  /\ t # newMessage
  /\ newMessage' = t
  /\ last' = Step("ui", FALSE, NoToast)
  /\ UNCHANGED <<probe, messages, isLoading, sessionId, sessionName, searchSid, urlSid,
                 skipNextReload, storage, datasetId, asks, loads, effectDue>>

\* handleSendMessage up to its await: rejected at the boundary
SubmitRejected ==
  /\ ~effectDue
  /\ ~CanSubmit(newMessage, isLoading)
  /\ last' = Step("rejected", FALSE, NoToast)
  /\ UNCHANGED <<probe, messages, newMessage, isLoading, sessionId, sessionName, searchSid,
                 urlSid, skipNextReload, storage, datasetId, asks, loads, effectDue>>

SubmitNoDataset ==
  /\ ~effectDue
  /\ CanSubmit(newMessage, isLoading)
  /\ datasetId = <<>>
  /\ last' = Step("nodataset", FALSE, Toast(NoDatasetTitle, NoDatasetText))
  /\ UNCHANGED <<probe, messages, newMessage, isLoading, sessionId, sessionName, searchSid,
                 urlSid, skipNextReload, storage, datasetId, asks, loads, effectDue>>

SubmitSend ==
  /\ ~effectDue
  /\ CanSubmit(newMessage, isLoading)
  /\ datasetId # <<>>
  /\ Len(messages) + 2 <= MaxMsgs
  /\ InFlight < MaxLoads
  /\ messages' = Append(messages, UserMessage(messages, newMessage))
  /\ newMessage' = <<>>
  /\ isLoading' = TRUE
  /\ asks' = Append(asks, [sid |-> sessionId, question |-> newMessage])
  /\ last' = Step("ui", FALSE, NoToast)
  /\ UNCHANGED <<probe, sessionId, sessionName, searchSid, urlSid, skipNextReload, storage,
                 datasetId, loads, effectDue>>

\* handleSendMessage from its await on: the response of request i has arrived
AnswerArrives(i, resp, quota) ==
  LET a == asks[i]
      r == askQuestion(resp)
      raw == r.data
      early == r.threw \/ raw.t \in {"null", "undefined"}
      rsid == Get(raw, kSessionId)
      adopt == ~early /\ ShouldAdopt(rsid, a.sid)
      n == normalize(raw)
      failed == early \/ n.threw
      newSid == IF adopt THEN StrOrEmpty(rsid) ELSE sessionId
  IN  /\ ~effectDue
      /\ skipNextReload' = (adopt \/ skipNextReload)
      /\ sessionId' = newSid
      /\ urlSid' = IF adopt THEN ReplaceSid(rsid) ELSE urlSid
      /\ sessionName' = IF ~early /\ Truthy(Get(raw, kSessionName))
                        THEN StrOrEmpty(Get(raw, kSessionName)) ELSE sessionName
      /\ storage' = IF failed THEN storage
                    ELSE cacheSet(storage, CacheSession(a.sid, rsid), StrOrEmpty(n.content),
                                  n.sqlQuery,
                                  Obj(<< <<kRows, Arr(n.rows)>>, <<kColumns, Arr(n.columns)>>,
                                         <<kChart, n.chartPlotly>> >>),
                                  quota)
      /\ messages' = IF failed THEN AppendError(messages, ErrorMessage(messages))
                     ELSE AppendBot(messages, BotMessage(messages, n))
      /\ isLoading' = LoadingAfter(failed)
      /\ asks' = Remove(asks, i)
      /\ effectDue' = (newSid # sessionId)
      /\ last' = Step(IF r.threw THEN "askFailed" ELSE IF failed THEN "answerThrew"
                      ELSE "answer",
                      adopt,
                      IF failed
                      THEN Toast(ErrorTitle, IF r.threw THEN r.error ELSE TypeErrorText)
                      ELSE NoToast)
      /\ UNCHANGED <<probe, newMessage, searchSid, datasetId, loads>>

\* the router changes ?sid (a sidebar session link); the URL-sync effect follows
Navigate(s) ==
  /\ ~effectDue
  /\ s # searchSid
  /\ InFlight < MaxLoads
  /\ searchSid' = s
  /\ urlSid' = s
  /\ sessionId' = IF s # NoSid /\ s # sessionId THEN s ELSE sessionId
  /\ effectDue' = (sessionId' # sessionId)
  /\ last' = Step("ui", FALSE, NoToast)
  /\ UNCHANGED <<probe, messages, newMessage, isLoading, sessionName, skipNextReload, storage,
                 datasetId, asks, loads>>

\* loadSession up to its first await, run once per change of sessionId
LoadEffect ==
  LET gate == LoadGate(sessionId, datasetId, skipNextReload)
  IN  /\ effectDue
      /\ effectDue' = FALSE
      /\ skipNextReload' = IF gate = "skip" THEN FALSE ELSE skipNextReload
      /\ loads' = IF gate = "fetch" THEN [loads EXCEPT ![sessionId] = @ + 1] ELSE loads
      /\ last' = Step(gate, last.adopt, NoToast)
      /\ UNCHANGED <<probe, messages, newMessage, isLoading, sessionId, sessionName, searchSid,
                     urlSid, storage, datasetId, asks>>

\* loadSession from its await on: the response of fetch i has arrived
LoadArrives(sid, resp) ==
  LET parsed == JSONParse(resp.body)
      data == parsed.value
      thrown == resp.reject \/ parsed.threw
      named == ~thrown /\ resp.ok /\ data.t \notin {"null", "undefined"}
               /\ Truthy(Get(Get(data, kSession), kName))
      m == Get(data, kMessages)
      arr == IF Truthy(m) THEN m ELSE Arr(<<>>)
      mapped == /\ ~thrown /\ resp.ok /\ data.t \notin {"null", "undefined"}
                /\ arr.t = "array"
                /\ \A j \in 1..Len(arr.v) : arr.v[j].t \notin {"null", "undefined"}
  IN  /\ ~effectDue
      /\ loads[sid] > 0
      /\ sessionName' = IF named THEN StrOrEmpty(Get(Get(data, kSession), kName))
                        ELSE sessionName
      /\ messages' = IF mapped THEN Hydrate(storage, sid, arr.v) ELSE messages
      /\ loads' = [loads EXCEPT ![sid] = @ - 1]
      /\ last' = Step(LoadClass(resp), FALSE, NoToast)
      /\ UNCHANGED <<probe, newMessage, isLoading, sessionId, searchSid, urlSid, skipNextReload,
                     storage, datasetId, asks, effectDue>>

\* what the render shows a toggle for: a bot message with any detail
HasDetails(m) ==
  \/ m.sqlQuery.t = "string" /\ Trim(m.sqlQuery.v) # <<>>
  \/ m.preview.t = "array" /\ Len(m.preview.v) > 0
  \/ Truthy(m.chartPlotly) /\ Get(m.chartPlotly, kData).t = "array"
     /\ Len(Get(m.chartPlotly, kData).v) > 0

HasRows(m) == m.preview.t = "array" /\ Len(m.preview.v) > 0

HasChart(m) ==
  /\ Truthy(m.chartPlotly)
  /\ Get(m.chartPlotly, kData).t = "array"
  /\ Len(Get(m.chartPlotly, kData).v) > 0

\* x.length of a value that is undefined or null is a TypeError
LengthThrows(x) == x.t \in {"undefined", "null"}

\* shouldShowPreview and shouldShowChart are computed for every message on every
\* render, with && short-circuiting from left to right
RenderThrows(m) ==
  \/ /\ HasRows(m)
     /\ Len(m.preview.v) > 1
     /\ LengthThrows(m.columns)
  \/ /\ HasChart(m)
     /\ \/ LengthThrows(m.preview)
        \/ Len(m.preview.v) = 1 /\ LengthThrows(m.columns)

\* a toggle that flips every message
toggleCollapseAll(ms, id) ==
  [i \in 1..Len(ms) |-> [ms[i] EXCEPT !.collapsed = ~ms[i].collapsed]]

\* prev.map(m => m.id === id ? { ...m, collapsed: !m.collapsed } : m)
toggleCollapse(ms, id) ==
  [i \in 1..Len(ms) |->
     IF ms[i].id = id THEN [ms[i] EXCEPT !.collapsed = ~ms[i].collapsed] ELSE ms[i]]

Toggle(i) ==
  /\ ~effectDue
  /\ messages[i].sender = "bot"
  /\ HasDetails(messages[i])
  /\ messages' = toggleCollapse(messages, messages[i].id)
  /\ last' = Step("ui", FALSE, NoToast)
  /\ UNCHANGED <<probe, newMessage, isLoading, sessionId, sessionName, searchSid, urlSid,
                 skipNextReload, storage, datasetId, asks, loads, effectDue>>

Next ==
  \/ \E t \in {<<>>, cQ} : Type(t)
  \/ SubmitRejected
  \/ SubmitNoDataset
  \/ SubmitSend
  \/ \E i \in 1..Len(asks), resp \in AskResponses :
       AnswerArrives(i, resp, FALSE)
  \/ \E s \in Sids : Navigate(s)
  \/ LoadEffect
  \/ \E sid \in Sids : \E resp \in LoadResponses(sid, MaxTranscript) :
       LoadArrives(sid, resp)
  \/ \E i \in 1..Len(messages) : Toggle(i)

Spec == Init /\ [][Next]_vars

\* Every ask request is answered or fails, however often an effect flush or a
\* navigation comes between; React runs a scheduled effect.
InitLive ==
  /\ messages = <<>>
  /\ newMessage = cQ
  /\ isLoading = FALSE
  /\ searchSid = NoSid
  /\ sessionId = NoSid
  /\ urlSid = NoSid
  /\ sessionName = <<>>
  /\ skipNextReload = FALSE
  /\ storage = <<>>
  /\ datasetId = Dataset
  /\ asks = <<>>
  /\ loads = [s \in Sids |-> 0]
  /\ effectDue = TRUE
  /\ last = Step("ui", FALSE, NoToast)
  /\ probe = NoProbe

\* the round trip of a question, with typing, navigation and session loads
\* running beside it
NextLive ==
  \/ Type(cQ)
  \/ SubmitSend
  \/ \E i \in 1..Len(asks), resp \in AskResponses :
       AnswerArrives(i, resp, FALSE)
  \/ \E s \in Sids : Navigate(s)
  \/ LoadEffect
  \/ \E sid \in Sids : \E resp \in LoadResponses(sid, MaxTranscript) :
       LoadArrives(sid, resp)

SpecLive ==
  /\ InitLive
  /\ [][NextLive]_vars
  /\ SF_vars(\E i \in 1..Len(asks), resp \in AskResponses : AnswerArrives(i, resp, FALSE))
  /\ WF_vars(LoadEffect)

(* --------------- the Chat page over a failing localStorage ------------- *)
\* One question and the session reloads around it, with setItem free to throw
\* and stored entries free to be overwritten with text that is not JSON.
InitStore ==
  /\ messages = <<>>
  /\ newMessage = cQ
  /\ isLoading = FALSE
  /\ searchSid = S1
  /\ sessionId = S1
  /\ urlSid = S1
  /\ sessionName = <<>>
  /\ skipNextReload = FALSE
  /\ storage = <<>>
  /\ datasetId = Dataset
  /\ asks = <<>>
  /\ loads = [s \in Sids |-> 0]
  /\ effectDue = TRUE
  /\ last = Step("ui", FALSE, NoToast)
  /\ probe = NoProbe

\* something else on the origin overwrites a cache entry with text that is not JSON
StorageCorrupted(k) ==
  /\ ~effectDue
  /\ storage[k] # Str(cX)
  /\ storage' = [storage EXCEPT ![k] = Str(cX)]
  /\ last' = Step("ui", FALSE, NoToast)
  /\ UNCHANGED <<probe, messages, newMessage, isLoading, sessionId, sessionName, searchSid,
                 urlSid, skipNextReload, datasetId, asks, loads, effectDue>>

\* entries another writer may leave under a cache key: rows without columns and
\* a chart without rows, each with a text and a query of its own
ForeignEntries ==
  {Obj(<< <<kContent, Str(cX)>>, <<kSql, Str(cX)>>,
          <<kRows, Arr(<< Obj(<< <<cX, Num(1)>> >>), Obj(<< <<cX, Num(2)>> >>) >>)>> >>),
   Obj(<< <<kContent, Str(cX)>>, <<kSql, Str(cX)>>,
          <<kChart, Obj(<< <<kData, Arr(<<Num(1)>>)>> >>)>> >>)}

\* something else on the origin overwrites a cache entry with JSON of its own
StorageForeign(k, entry) ==
  /\ ~effectDue
  /\ storage[k] # JSONStringify(entry)
  /\ storage' = [storage EXCEPT ![k] = JSONStringify(entry)]
  /\ last' = Step("ui", FALSE, NoToast)
  /\ UNCHANGED <<probe, messages, newMessage, isLoading, sessionId, sessionName, searchSid,
                 urlSid, skipNextReload, datasetId, asks, loads, effectDue>>

NextStore ==
  \/ SubmitSend
  \/ \E i \in 1..Len(asks), resp \in AskResponses, quota \in BOOLEAN :
       AnswerArrives(i, resp, quota)
  \/ \E s \in Sids : Navigate(s)
  \/ LoadEffect
  \/ \E sid \in Sids : \E resp \in LoadResponses(sid, MaxTranscript) :
       LoadArrives(sid, resp)
  \/ \E k \in DOMAIN storage : StorageCorrupted(k)
  \/ \E k \in DOMAIN storage, entry \in ForeignEntries : StorageForeign(k, entry)

SpecStore == InitStore /\ [][NextStore]_vars

(* ------------------- the cache helpers, called directly ---------------- *)
\* cacheSet calls made before the store is read back
MaxPuts == 2

\* the Chat variables other than the store, while only the helpers run
chatVars == <<messages, newMessage, isLoading, sessionId, sessionName, searchSid, urlSid,
              skipNextReload, datasetId, asks, loads, effectDue, last>>

ChatIdle ==
  /\ messages = <<>>
  /\ newMessage = <<>>
  /\ isLoading = FALSE
  /\ searchSid = NoSid
  /\ sessionId = NoSid
  /\ urlSid = NoSid
  /\ sessionName = <<>>
  /\ skipNextReload = FALSE
  /\ datasetId = Dataset
  /\ asks = <<>>
  /\ loads = [s \in Sids |-> 0]
  /\ effectDue = FALSE
  /\ last = Step("ui", FALSE, NoToast)

\* { rows, columns, chart: chartPlotly } as handleSendMessage passes it
Payload(rows, columns, chart) ==
  Obj(<< <<kRows, Arr(rows)>>, <<kColumns, Arr(columns)>>, <<kChart, chart>> >>)

CacheSids == {NoSid, S1}
\* "", "a", "a|"
CacheContents == {<<>>, cA, cA \o <<124>>}
\* undefined, "s", "|s"
CacheQueries == {Undef, Str(cS), Str(<<124>> \o cS)}
Payloads ==
  {Payload(<<>>, <<>>, Null),
   Payload(<< Obj(<< <<cX, Num(1)>> >>) >>, <<Str(cX)>>, Obj(<< <<kData, Arr(<<Num(1)>>)>> >>))}

CacheCall(sid, content, sql, payload) ==
  [sid |-> sid, content |-> content, sql |-> sql, payload |-> payload]

\* puts: the cacheSet calls so far; call: the last call; before: the store it found;
\* ret: what it returned
CacheProbe(fn, puts, call, before, ret) ==
  [fn |-> fn, puts |-> puts, call |-> call, before |-> before, ret |-> ret]

InitCache ==
  /\ ChatIdle
  /\ storage = <<>>
  /\ probe = CacheProbe("none", <<>>, CacheCall(NoSid, <<>>, Undef, Undef), <<>>, Undef)

CallCacheSet(sid, content, sql, payload) ==
  /\ Len(probe.puts) < MaxPuts
  /\ storage' = cacheSet(storage, sid, content, sql, payload, FALSE)
  /\ probe' = CacheProbe("cacheSet",
                         Append(probe.puts, CacheCall(sid, content, sql, payload)),
                         CacheCall(sid, content, sql, payload), storage, Undef)
  /\ UNCHANGED chatVars

CallCacheGet(sid, content, sql) ==
  /\ probe' = CacheProbe("cacheGet", probe.puts, CacheCall(sid, content, sql, Undef),
                         storage, cacheGet(storage, sid, content, sql))
  /\ UNCHANGED <<storage, chatVars>>

NextCache ==
  \/ \E sid \in CacheSids, content \in CacheContents, sql \in CacheQueries,
        payload \in Payloads : CallCacheSet(sid, content, sql, payload)
  \/ \E sid \in CacheSids, content \in CacheContents, sql \in CacheQueries :
       CallCacheGet(sid, content, sql)

SpecCache == InitCache /\ [][NextCache]_vars

(* ----------------------- normalize, called directly -------------------- *)
\* " a ", "  " and "m"
cPadded == <<32>> \o cA \o <<32>>
cBlank == <<32, 32>>
cMsg == <<109>>

Row == Obj(<< <<cX, Num(1)>> >>)
Chart == Obj(<< <<kData, Arr(<<Num(1)>>)>> >>)

Summaries == {Undef, Str(<<>>), Str(cPadded), Str(cBlank), Num(5)}
Messages == {Undef, Str(<<>>), Str(cMsg)}
RowsShapes ==
  {Undef, Arr(<<>>), Arr(<<Row>>), Arr(<<Null>>), Arr(<<Num(7), Row>>),
   Obj(<< <<cA, Row>>, <<cS, Row>> >>), Obj(<< <<cA, Null>> >>), Obj(<< <<cA, Num(5)>> >>),
   Str(cX), Num(7)}
ColumnsShapes == {Undef, Arr(<<>>), Arr(<<Str(cS), Str(cA)>>)}
Results ==
  {Undef} \cup {Fields(<< <<kRows, r>>, <<kColumns, c>> >>) : r \in RowsShapes, c \in ColumnsShapes}
Charts ==
  {Undef, Null, Chart, JSONStringify(Chart), JSONStringify(Num(5)), Str(cX), Num(7)}

\* the QAResponse bodies normalize is given
NormInputs ==
  {Fields(<< <<kSummary, s>>, <<kMessage, m>>, <<kSql, Str(cS)>>, <<kResult, r>>,
             <<kChart, c>> >>) :
     s \in Summaries, m \in Messages, r \in Results, c \in Charts}

NormProbe(data, called, out) ==
  [fn |-> "normalize", data |-> data, called |-> called, out |-> out]

InitNorm ==
  /\ ChatIdle
  /\ storage = <<>>
  /\ \E data \in NormInputs : probe = NormProbe(data, FALSE, Undef)

CallNormalize ==
  /\ ~probe.called
  /\ probe' = NormProbe(probe.data, TRUE, normalize(probe.data))
  /\ UNCHANGED <<storage, chatVars>>

NextNorm == CallNormalize

SpecNorm == InitNorm /\ [][NextNorm]_vars

(* ------------------------------ properties ---------------------------- *)
\* a step of AnswerArrives: the only action that takes a question out of flight
AnswerStep == Len(asks') < Len(asks)

\* a step of LoadArrives for the fetch of session sid
LoadStep(sid) == loads'[sid] < loads[sid]

Final(ms) == ms[Len(ms)]

\* the rows, columns and chart normalize reads out of RichAnswer
RichPayload == normalize(Obj(RichAnswer))

CarriesRichPayload(m) ==
  /\ m.sender = "bot"
  /\ m.preview = Arr(RichPayload.rows)
  /\ Len(RichPayload.rows) > 0
  /\ m.columns = Arr(RichPayload.columns)
  /\ m.chartPlotly = RichPayload.chartPlotly

\* every bot message before the last position is collapsed
EarlierBotsCollapsed(ms) ==
  \A i \in 1..(Len(ms) - 1) : ms[i].sender = "bot" => ms[i].collapsed

\* C1: when an answer's session id is adopted (the tracked id changes to it), the
\* load cycle that then runs for the adopted id starts no fetch, clears
\* skipNextReload and leaves the message list as the answer path left it, the
\* rows, columns and chart of the just-appended bot message included.
C1_AdoptionSkip ==
  [][(effectDue /\ last.adopt) =>
       /\ last'.op = "skip"
       /\ loads' = loads
       /\ ~skipNextReload'
       /\ sessionId' = sessionId
       /\ messages' = messages
       /\ (last.op = "answer" => CarriesRichPayload(Final(messages')))]_vars

C1_Witness ==
  /\ last.op = "skip"
  /\ last.adopt
  /\ ~skipNextReload
  /\ sessionId # NoSid
  /\ loads[sessionId] = 0
  /\ CarriesRichPayload(Final(messages))

\* C2: a load cycle triggered by a change of the tracked session id that is not an
\* adoption (the mount, or the user navigating to another session) always starts
\* the fetch for that id; no skipNextReload flag left by an earlier answer
\* suppresses it.
C2_IndependentChangeFetches ==
  [][(effectDue /\ ~last.adopt /\ sessionId # NoSid /\ datasetId # <<>>) =>
       /\ last'.op = "fetch"
       /\ loads'[sessionId] = loads[sessionId] + 1]_vars

\* C3: the response of a fetch started for a session id that is no longer the
\* tracked one is discarded: it replaces neither the message list nor the session
\* name.
C3_StaleLoadDiscarded ==
  [][\A sid \in Sids :
       (LoadStep(sid) /\ sid # sessionId) =>
         (messages' = messages /\ sessionName' = sessionName)]_vars

\* C4: after a successful session load, among the bot messages exactly the last
\* one is expanded and every earlier one is collapsed, whatever the collapse
\* states were before the load; user messages are not collapsed.
C4_HydrationContainment ==
  last.op = "loadOk" =>
    \A i \in 1..Len(messages) :
      IF messages[i].sender = "bot"
      THEN messages[i].collapsed <=>
             (\E j \in (i + 1)..Len(messages) : messages[j].sender = "bot")
      ELSE ~messages[i].collapsed

C4_Witness ==
  /\ last.op = "loadOk"
  /\ Len(messages) = 2
  /\ messages[1].sender = "bot" /\ messages[1].collapsed
  /\ messages[2].sender = "bot" /\ ~messages[2].collapsed

\* C5 (as the code has it): when handleSendMessage appends the bot message of a
\* successful answer, every bot message that already existed is collapsed
\* afterwards and the appended one is expanded; when it appends the error reply of
\* a failed question, the reply is expanded and the earlier messages keep the
\* collapse states they had.
C5_AppendContainment ==
  [][AnswerStep =>
       /\ Len(messages') = Len(messages) + 1
       /\ Final(messages').sender = "bot"
       /\ ~Final(messages').collapsed
       /\ IF last'.op = "answer"
          THEN EarlierBotsCollapsed(messages')
          ELSE SubSeq(messages', 1, Len(messages)) = messages]_vars

C5_Witness ==
  /\ last.op = "answer"
  /\ Len(messages) = 3
  /\ messages[1].sender = "bot" /\ messages[1].collapsed
  /\ ~messages[3].collapsed

\* C5 (as the spec has it): whenever handleSendMessage appends a bot message,
\* every bot message that already existed is collapsed afterwards, so at most one
\* bot message is expanded right after the append.
C5_AnyAppendCollapsesEarlier ==
  [][AnswerStep => EarlierBotsCollapsed(messages')]_vars

\* C6: after an answer is processed for the session that is tracked afterwards
\* (it was tracked when the question was asked, or the answer's id is adopted),
\* the cache holds the answer's rows, columns and chart under the key of the
\* tracked session id and the answer's text and query.
C6_PayloadCachedUnderTracked ==
  [][(/\ AnswerStep
      /\ last'.op = "answer"
      /\ sessionId' # NoSid
      /\ (last'.adopt \/ asks[1].sid = sessionId)) =>
       LET m == Final(messages')
           hit == cacheGet(storage', sessionId', StrOrEmpty(m.content), m.sqlQuery)
       IN  /\ Get(hit, kRows) = m.preview
           /\ Get(hit, kColumns) = m.columns
           /\ Get(hit, kChart) = m.chartPlotly]_vars

\* C7: a session load that fails (rejected fetch, non-success status, unparseable
\* body, or a success body without a usable messages sequence) leaves the
\* message list exactly as it was.
C7_FailedLoadKeepsMessages ==
  [][\A sid \in Sids :
       (LoadStep(sid) /\ last'.op \in {"loadFailed", "loadMissing", "loadMalformed"}) =>
         messages' = messages]_vars

\* C8 (as the code has it): when the ask-question call fails by transport failure
\* or a non-success response, a notice titled Error carrying the error's message
\* is raised, the tracked session id, the cache and skipNextReload stay as they
\* were, and the message list gains exactly the error reply at its end.
C8_AskFailure ==
  [][(AnswerStep /\ last'.op = "askFailed") =>
       /\ last'.toast.title = ErrorTitle
       /\ \E resp \in AskResponses :
            askQuestion(resp).threw /\ last'.toast.description = askQuestion(resp).error
       /\ sessionId' = sessionId
       /\ storage' = storage
       /\ skipNextReload' = skipNextReload
       /\ messages' = Append(messages, ErrorMessage(messages))]_vars

C8_Witness ==
  /\ last.op = "askFailed"
  /\ last.toast.title = ErrorTitle
  /\ Len(messages) >= 2
  /\ Final(messages).content = Str(ErrorReplyText)
  /\ messages[Len(messages) - 1].sender = "user"

\* C8 (as the spec has it): a failed ask-question call raises a notice and leaves
\* the message list, the tracked session id and the cache as they were.
C8_AskFailureChangesNothing ==
  [][(AnswerStep /\ last'.op = "askFailed") =>
       /\ last'.toast # NoToast
       /\ messages' = messages
       /\ sessionId' = sessionId
       /\ storage' = storage]_vars

\* C9: every failure of the session-load call and of the ask-question call raises
\* a notice, and a failure inside normalization raises none.
C9_FailureVisibility ==
  /\ last.op \in {"loadFailed", "askFailed"} => last.toast # NoToast
  /\ last.op = "answerThrew" => last.toast = NoToast

\* C10: at most one ask-question request is outstanding, and a submission made
\* while one is pending or with blank text sends nothing, appends nothing and
\* leaves nothing behind for later: only a submission of non-blank text with no
\* request pending sends a question or appends a user message.
C10_OneInFlight ==
  /\ [](Len(asks) <= 1)
  /\ [][/\ Len(asks') > Len(asks) =>
            (~isLoading /\ Trim(newMessage) # <<>> /\ asks = <<>>)
        /\ last'.op = "rejected" =>
            UNCHANGED <<messages, asks, isLoading, newMessage, storage, sessionId>>]_vars

C10_Witness ==
  /\ last.op = "rejected"
  /\ isLoading
  /\ Len(asks) = 1
  /\ Trim(newMessage) # <<>>

\* the localStorage key a direct call computes
KeyOf(call) == CacheKey(call.sid, call.content, StrOrEmpty(call.sql))

\* the call passes the guard on empty sessionId / summary
Writes(call) == call.sid # <<>> /\ call.content # <<>>

\* C11: cacheSet(S, c, q, p) with non-empty S and c, followed by cacheGet(S, c, q)
\* with no write to the same key in between, returns a payload equal to p (the
\* store accepting the write).
C11_CacheRoundTrip ==
  probe.fn = "cacheGet" =>
    \A i \in 1..Len(probe.puts) :
      LET put == probe.puts[i]
      IN  (/\ Writes(put)
           /\ put.sid = probe.call.sid
           /\ put.content = probe.call.content
           /\ put.sql = probe.call.sql
           /\ \A j \in (i + 1)..Len(probe.puts) :
                ~(Writes(probe.puts[j]) /\ KeyOf(probe.puts[j]) = KeyOf(put)))
          => probe.ret = put.payload

C11_Witness ==
  /\ probe.fn = "cacheGet"
  /\ Len(probe.puts) = 2
  /\ Writes(probe.puts[1]) /\ Writes(probe.puts[2])
  /\ KeyOf(probe.puts[2]) # KeyOf(probe.puts[1])
  /\ KeyOf(probe.call) = KeyOf(probe.puts[1])
  /\ probe.call.sql = probe.puts[1].sql
  /\ probe.call.content = probe.puts[1].content
  /\ probe.ret = probe.puts[1].payload
  /\ Len(Get(probe.ret, kRows).v) > 0

\* C12: on a store where only (S, c, q) has been put, cacheGet(S, c2, q2) is a
\* miss for every (c2, q2) other than (c, q), an absent query counting as the
\* empty one.
C12_KeySeparation ==
  (/\ probe.fn = "cacheGet"
   /\ Len(probe.puts) = 1
   /\ probe.call.sid = probe.puts[1].sid
   /\ <<probe.call.content, StrOrEmpty(probe.call.sql)>>
        # <<probe.puts[1].content, StrOrEmpty(probe.puts[1].sql)>>)
  => probe.ret = Null

\* C13: cacheSet leaves the store unchanged when sessionId or content is empty;
\* otherwise (the store accepting the write) it puts the payload's JSON text
\* under the computed key and leaves every other entry as it was; cacheGet with
\* an empty sessionId or content returns null.
C13_CacheFrame ==
  /\ probe.fn = "cacheSet" =>
       IF ~Writes(probe.call) THEN storage = probe.before
       ELSE /\ DOMAIN storage = DOMAIN probe.before \cup {KeyOf(probe.call)}
            /\ storage[KeyOf(probe.call)] = JSONStringify(probe.call.payload)
            /\ \A k \in DOMAIN probe.before \ {KeyOf(probe.call)} :
                 storage[k] = probe.before[k]
  /\ (probe.fn = "cacheGet" /\ ~Writes(probe.call)) => probe.ret = Null

C13_Witness ==
  /\ probe.fn = "cacheSet"
  /\ Writes(probe.call)
  /\ Cardinality(DOMAIN probe.before) = 1
  /\ KeyOf(probe.call) \notin DOMAIN probe.before
  /\ Cardinality(DOMAIN storage) = 2

\* the fields of the body normalize was called with
RowsIn == Get(Get(probe.data, kResult), kRows)
ColumnsIn == Get(Get(probe.data, kResult), kColumns)
ChartIn == Get(probe.data, kChart)
SummaryIn == Get(probe.data, kSummary)
MessageIn == Get(probe.data, kMessage)

\* normalize was called and returned
Returned == probe.called /\ ~probe.out.threw

\* C15: for any input, unexpected field types included, normalize returns without
\* raising, and its content is a non-empty text.
C15_NormalizeTotal ==
  probe.called =>
    /\ ~probe.out.threw
    /\ probe.out.content.t = "string"
    /\ probe.out.content.v # <<>>

\* C16: rows is result.rows itself when that is an ordered sequence; the sequence
\* of its values when it is a keyed mapping whose every value is a record; and
\* empty for every other shape.
C16_RowsCoercion ==
  Returned =>
    probe.out.rows =
      IF RowsIn.t = "array" THEN RowsIn.v
      ELSE IF RowsIn.t = "object" /\ \A i \in 1..Len(RowsIn.v) : RowsIn.v[i][2].t = "object"
      THEN [i \in 1..Len(RowsIn.v) |-> RowsIn.v[i][2]]
      ELSE <<>>

\* C17: whenever normalize returns, columns is result.columns when that is a
\* non-empty ordered sequence; otherwise the keys of the first row when a row
\* exists; otherwise empty.
C17_ColumnsDerivation ==
  Returned =>
    probe.out.columns =
      IF ColumnsIn.t = "array" /\ Len(ColumnsIn.v) > 0 THEN ColumnsIn.v
      ELSE IF Len(probe.out.rows) > 0 THEN KeysOf(probe.out.rows[1])
      ELSE <<>>

C17_Witness ==
  /\ Returned
  /\ ~(ColumnsIn.t = "array" /\ Len(ColumnsIn.v) > 0)
  /\ Len(probe.out.rows) > 0
  /\ probe.out.columns = <<Str(cX)>>

C19_ContentSelection ==
  Returned =>
    probe.out.content =
      IF SummaryIn.t = "string" /\ Trim(SummaryIn.v) # <<>> THEN Str(Trim(SummaryIn.v))
      ELSE IF MessageIn.t = "string" /\ MessageIn.v # <<>> THEN MessageIn
      ELSE IF Len(probe.out.rows) > 0
      THEN Str(ReturnedText \o NumToString(Len(probe.out.rows), 10) \o RowsTimesText
               \o NumToString(Len(probe.out.columns), 10) \o ColumnsText)
      ELSE Str(NoRowsText)

C19_Witness ==
  /\ Returned
  /\ SummaryIn = Str(cBlank)
  /\ MessageIn = Str(<<>>)
  /\ Len(probe.out.rows) = 2
  /\ Len(probe.out.columns) = 1
  /\ probe.out.content =
       Str(ReturnedText \o <<50>> \o RowsTimesText \o <<49>> \o ColumnsText)

TextOnly(m) == m.preview = Undef /\ m.columns = Undef /\ m.chartPlotly = Undef

\* the store holds nothing usable for message m of session sid: no entry under
\* its key, or text that is not JSON
NothingStored(store, sid, m) ==
  LET key == CacheKey(sid, StrOrEmpty(m.content), StrOrEmpty(m.sqlQuery))
  IN  key \notin DOMAIN store \/ JSONParse(store[key]).threw

C20_HydrationMapping ==
  [][\A sid \in Sids : \A resp \in LoadResponses(sid, MaxTranscript) :
       (LoadStep(sid) /\ LoadClass(resp) = "loadOk" /\ LoadArrives(sid, resp)) =>
         LET tr == Get(JSONParse(resp.body).value, kMessages).v
         IN  /\ Len(messages') = Len(tr)
             /\ \A i \in 1..Len(tr) :
                  LET m == messages'[i]
                      hit == cacheGet(storage, sid, StrOrEmpty(Get(tr[i], kContent)),
                                      Get(tr[i], kSql))
                  IN  /\ m.sender = IF Get(tr[i], kRole) = roleUser THEN "user" ELSE "bot"
                      /\ m.content = Get(tr[i], kContent)
                      /\ m.sqlQuery = Get(tr[i], kSql)
                      /\ IF hit = Null THEN TextOnly(m)
                         ELSE /\ m.preview = Get(hit, kRows)
                              /\ m.columns = Get(hit, kColumns)
                              /\ m.chartPlotly = Get(hit, kChart)]_vars

C20_Witness ==
  /\ last.op = "loadOk"
  /\ Len(messages) = 2
  /\ messages[1].sender = "user" /\ messages[1].content = Str(cQ) /\ TextOnly(messages[1])
  /\ messages[2].content = Str(cA)
  /\ CarriesRichPayload(messages[2])

\* the entry stored under the key of message m of session sid, when it is JSON
StoredFor(store, sid, m) ==
  LET key == CacheKey(sid, StrOrEmpty(m.content), StrOrEmpty(m.sqlQuery))
  IN  IF key \in DOMAIN store THEN JSONParse(store[key]).value ELSE Undef

\* C21: the transcript is authoritative for text.  In every message a
\* successful load produces, content and query are the transcript entry's,
\* whatever the cache holds under the entry's key, a foreign entry with a text
\* and a query of its own included; the messages differ from the cache-free
\* mapping of the transcript in rows, columns and chart only.
C21_TranscriptAuthoritative ==
  [][\A sid \in Sids : \A resp \in LoadResponses(sid, MaxTranscript) :
       (LoadStep(sid) /\ LoadClass(resp) = "loadOk" /\ LoadArrives(sid, resp)) =>
         LET tr == Get(JSONParse(resp.body).value, kMessages).v
             plain == HydratePlain(storage, sid, tr)
         IN  /\ Len(messages') = Len(tr)
             /\ \A i \in 1..Len(tr) :
                  /\ messages'[i].content = Get(tr[i], kContent)
                  /\ messages'[i].sqlQuery = Get(tr[i], kSql)
                  /\ [messages'[i] EXCEPT !.preview = Undef, !.columns = Undef,
                                          !.chartPlotly = Undef] = plain[i]]_vars

\* a reloaded answer that shows the rows of a foreign entry stored under its key
\* and still the transcript's text and query
C21_Witness ==
  /\ last.op = "loadOk"
  /\ \E i \in 1..Len(messages) :
       /\ messages[i].sender = "bot"
       /\ messages[i].content = Str(cA)
       /\ messages[i].sqlQuery = Str(cS)
       /\ Get(StoredFor(storage, sessionId, messages[i]), kContent) = Str(cX)
       /\ messages[i].preview = Get(StoredFor(storage, sessionId, messages[i]), kRows)
       /\ messages[i].preview.t = "array"

\* C22: a toggle flips collapsed of exactly the message with that identifier
\* and changes nothing else: every other message, the length and order of the
\* list, the tracked session id, the cache and skipNextReload stay as they
\* were, and toggling the same identifier again restores the list.
C22_ToggleFrame ==
  [][\A i \in 1..Len(messages) :
       Toggle(i) =>
         /\ Len(messages') = Len(messages)
         /\ messages'[i] = [messages[i] EXCEPT !.collapsed = ~messages[i].collapsed]
         /\ \A j \in 1..Len(messages) : j # i => messages'[j] = messages[j]
         /\ toggleCollapse(messages', messages[i].id) = messages
         /\ UNCHANGED <<sessionId, storage, skipNextReload>>]_vars

\* two answers both shown expanded: the earlier one was collapsed when the list
\* was built, so a toggle has opened it
C22_Witness ==
  /\ Len(messages) = 2
  /\ \A j \in 1..2 : /\ messages[j].sender = "bot"
                      /\ HasDetails(messages[j])
                      /\ ~messages[j].collapsed
  /\ messages[1].id # messages[2].id

\* the session id an ask response carries, when it carries an answer at all
AnswerSid(resp) == Get(askQuestion(resp).data, kSessionId)

AnswerReceived(resp) ==
  ~askQuestion(resp).threw /\ askQuestion(resp).data.t \notin {"null", "undefined"}

\* C23: an answer whose session id differs from the id tracked when it arrives
\* (the empty id included) sets skipNextReload and makes the tracked id the
\* answer's; an answer with no session id, or with the tracked one, changes
\* neither the flag nor the tracked id.
C23_AdoptionAgainstTracked ==
  [][\A resp \in AskResponses :
       (Len(asks) > 0 /\ AnswerReceived(resp) /\ AnswerArrives(1, resp, FALSE)) =>
         IF Truthy(AnswerSid(resp)) /\ AnswerSid(resp) # Str(sessionId)
         THEN skipNextReload' /\ sessionId' = StrOrEmpty(AnswerSid(resp))
         ELSE UNCHANGED <<skipNextReload, sessionId>>]_vars

\* C24: after every adoption the ?sid the URL shows is the tracked session id,
\* which is a session; the URL is rewritten in place, so the router's own
\* parameters are not changed and the page is not reloaded.
C24_UrlShowsAdopted ==
  [][(AnswerStep /\ last'.adopt) =>
       /\ urlSid' = sessionId'
       /\ sessionId' # NoSid
       /\ UNCHANGED searchSid]_vars

\* a conversation started without a session that has adopted the server's: the
\* URL shows the adopted id while the router still holds none
C24_Witness ==
  /\ last.op = "answer"
  /\ last.adopt
  /\ sessionId = S1
  /\ urlSid = S1
  /\ searchSid = NoSid
  /\ skipNextReload

\* C25: every message in the list can be rendered without failure, whether it
\* was appended from an answer or hydrated from any cache entry, an entry with
\* rows but no columns or with a chart but no rows included.
C25_Renderable ==
  \A i \in 1..Len(messages) : ~RenderThrows(messages[i])

\* message m with its collapse flag left out of the comparison
Uncollapsed(m) == [m EXCEPT !.collapsed = FALSE]

\* C26: appending a user message or a bot message adds exactly one message at
\* the end of the list.  The messages that were there keep their order, ids,
\* senders and content; a user append leaves them as they are, a bot append
\* may change the collapse flag of bot messages only; none is dropped or merged
\* because its content equals another's.
C26_InsertionOrder ==
  [][/\ Len(asks') > Len(asks) =>
          /\ Len(messages') = Len(messages) + 1
          /\ Final(messages').sender = "user"
          /\ \A j \in 1..Len(messages) : messages'[j] = messages[j]
     /\ AnswerStep =>
          /\ Len(messages') = Len(messages) + 1
          /\ Final(messages').sender = "bot"
          /\ \A j \in 1..Len(messages) :
               /\ Uncollapsed(messages'[j]) = Uncollapsed(messages[j])
               /\ messages[j].sender = "user" => messages'[j] = messages[j]]_vars

\* a reloaded answer, a new question and a second answer with the same text as
\* the first: all three are in the list, in that order
C26_Witness ==
  /\ last.op = "answer"
  /\ Len(messages) = 3
  /\ messages[1].sender = "bot"
  /\ messages[2].sender = "user"
  /\ messages[3].sender = "bot"
  /\ messages[1].content = messages[3].content
  /\ messages[1].collapsed

\* C27: the sessions-updated notification is dispatched in the adoption block,
\* once per run of it; an answer that does not change the tracked session id
\* dispatches none, and one that changes it dispatches one.
C27_NotificationIffTrackedChanges ==
  [][AnswerStep => (last'.adopt <=> sessionId' # sessionId)]_vars

\* C28: when the reply to a submission is appended, the user message of that
\* submission is still in the list and the reply is placed immediately after
\* it, whatever session load ran meanwhile.
C28_QuestionKeptUntilReply ==
  [][AnswerStep =>
       /\ Len(messages) > 0
       /\ Final(messages).sender = "user"
       /\ Final(messages).content = Str(asks[1].question)
       /\ Len(messages') = Len(messages) + 1
       /\ messages'[Len(messages)] = Final(messages)
       /\ Final(messages').sender = "bot"]_vars

\* C29: the reply to a question asked under one session, arriving when another
\* session is tracked and its load cycle is over, is not appended to the list
\* shown and does not change the tracked session id.
C29_NoCrossSessionReply ==
  [][(/\ AnswerStep
      /\ asks[1].sid # NoSid
      /\ sessionId # NoSid
      /\ asks[1].sid # sessionId
      /\ loads = [s \in Sids |-> 0]) =>
       /\ messages' = messages
       /\ sessionId' = sessionId]_vars

\* C30: every accepted submission appends exactly one user message and its
\* response, answer or failure, appends exactly one bot message and clears
\* isLoading; isLoading holds exactly while a request is outstanding; and,
\* every request being answered eventually, isLoading always returns to false.
C30_RequestCompletion ==
  /\ [](isLoading <=> asks # <<>>)
  /\ [][/\ Len(asks') > Len(asks) =>
            /\ ~isLoading /\ isLoading'
            /\ messages' = Append(messages, Final(messages'))
            /\ Final(messages').sender = "user"
       /\ AnswerStep =>
            /\ isLoading /\ ~isLoading'
            /\ Len(messages') = Len(messages) + 1
            /\ Final(messages').sender = "bot"]_vars
  /\ (isLoading ~> ~isLoading)

\* a question and its reply in the list, nothing outstanding, and a new
\* question typed that can be submitted
C30_Witness ==
  /\ ~isLoading
  /\ asks = <<>>
  /\ Len(messages) = 2
  /\ messages[1].sender = "user"
  /\ messages[2].sender = "bot"
  /\ newMessage = cQ
  /\ CanSubmit(newMessage, isLoading)

====
